---- MODULE Spec2Model ----
(***************************************************************************)
(* A model of the poker analysis backend:                                  *)
(*   backend/engine.py          the Monte Carlo equity simulator           *)
(*   backend/advanced_engine.py the decision engine and its equity cache   *)
(*   backend/poker_math.py      the equity adjuster, odds and strategy     *)
(*                                                                         *)
(* Numbers.  Probabilities and equities are fixed-point integers in units  *)
(* of 1/One (One stands for 1.0); money is in cents.  The counts of the    *)
(* simulator are integers, and its returned probabilities are kept as the  *)
(* fractions <<numerator, denominator>> the code divides.                  *)
(***************************************************************************)
EXTENDS Integers, Sequences, FiniteSets, TLC

(***************************************************************************)
(* Bounds of the model.                                                    *)
(***************************************************************************)
\* The deck: the cards 0 .. DeckSize-1, rank-major (treys' Deck() has 52).
DeckSize == 11
\* estimate_win_probability is called with num_opponents in 0 .. SimMaxOpp
SimMaxOpp == 2
\* ... and with trials in -1 .. SimMaxTrials
SimMaxTrials == 2

\* _calculate_raw_equity simulates EngTrials trials (its default is 10000)
EngTrials == 1
\* analyze_comprehensive is called at most MaxCalls times
MaxCalls == 2

\* Four suits to a rank.
NumSuits == 4

\* 1.0 in the fixed-point unit of probabilities and equities
One == 6000

VARIABLES
    \* ---- estimate_win_probability (engine.py:27-62): its frame
    pc,             \* where the call is: "idle", "loop", "deal_opp", "deal_board", "eval", "done", "error"
    hole_cards,     \* argument: the hole card tokens, a sequence of <<rank, suit>>
    community_cards,\* argument: the board card tokens
    num_opponents,  \* argument
    trials,         \* argument
    hole,           \* parse_cards(hole_cards)
    board,          \* parse_cards(community_cards)
    known_cards,    \* set(hole_cards + community_cards)
    wins, ties, losses,
    done_trials,    \* iterations of the for loop completed
    deck,           \* deck.cards of the current trial, as the set of cards left
    opp_hands,      \* the opponents' hands dealt in the current trial
    community_draw, \* the board cards dealt in the current trial
    result,         \* the returned (win, tie, loss): fractions, or <<>> before the return
    \* ---- AdvancedPokerEngine (advanced_engine.py:77-90) and one analyze_comprehensive call
    equity_cache,   \* self.equity_cache: a function from cache keys to equities
    sim_log,        \* history: the simulator runs made for the cache, <<hole, board, n, equity>>
    calls,          \* the number of analyze_comprehensive calls made
    stage,          \* where the current analyze_comprehensive call is
    game_state,     \* argument: the GameState
    opponent_profile, \* argument: the OpponentProfile
    bankroll,       \* argument
    locals,         \* the locals of analyze_comprehensive computed so far
    analysis,       \* the AdvancedAnalysis returned by the last successful call
    \* ---- a single application of one pure function
    arg,            \* its arguments
    ret             \* <<its value>>, or <<>> before the application

simvars == <<pc, hole_cards, community_cards, num_opponents, trials, hole, board,
             known_cards, wins, ties, losses, done_trials, deck, opp_hands,
             community_draw, result>>

engvars == <<equity_cache, sim_log, calls, stage, game_state, opponent_profile,
             bankroll, locals, analysis>>

fnvars == <<arg, ret>>

vars == <<simvars, engvars, fnvars>>

(***************************************************************************)
(* Cards.  A token such as "Ah" is the pair <<rank, suit>>, rank 2..14 and  *)
(* suit 0..3; Card.new turns it into the integer the deck and the          *)
(* evaluator work with.                                                    *)
(***************************************************************************)
\* engine.py:9-11 _parse_card
_parse_card(card) == (card[1] - 2) * NumSuits + card[2]

\* engine.py:14-15 parse_cards
parse_cards(cards) == [k \in 1..Len(cards) |-> _parse_card(cards[k])]

\* the token of a card (the inverse of Card.new), used to write the inputs
Tok(c) == <<(c \div NumSuits) + 2, c % NumSuits>>
Toks(cs) == [k \in 1..Len(cs) |-> Tok(cs[k])]

RankOf(c) == (c \div NumSuits) + 2

SeqToSet(s) == {s[k] : k \in 1..Len(s)}

\* Deck(): the full deck
GetFullDeck == 0 .. (DeckSize - 1)

(***************************************************************************)
(* The hand evaluator (treys' Evaluator, used through engine.py:6).  It is *)
(* a deterministic function of the cards of the hand and the board, blind  *)
(* to their order, whose value orders hands: the LOWER score is the        *)
(* stronger hand.  Here: the hand is ranked by its largest group of equal  *)
(* ranks (pair, trips, quads), then that group's rank, then the highest    *)
(* other rank (the kicker).                                                *)
(***************************************************************************)
\* max() and min() of a non-empty set of numbers (the set is a value, T,
\* computed once)
Maxima(T) == {x \in T : \A y \in T : y <= x}
Minima(T) == {x \in T : \A y \in T : x <= y}
Max(S) == CHOOSE x \in UNION {Maxima(T) : T \in {S}} : TRUE
Min(S) == CHOOSE x \in UNION {Minima(T) : T \in {S}} : TRUE

CountRank(cards, r) == Cardinality({k \in 1..Len(cards) : RankOf(cards[k]) = r})

RanksIn(cards) == {RankOf(cards[k]) : k \in 1..Len(cards)}

Kicker(all, top) ==
    IF RanksIn(all) = {top} THEN 0 ELSE Max(RanksIn(all) \ {top})

\* the score of the cards all: the largest group decides, then its rank, then
\* the kicker (a rank is below 20 and a rank times 20 is below 1000)
HandScore(all) ==
    8000 - Max({CountRank(all, r) * 1000 + r * 20 + Kicker(all, r) : r \in RanksIn(all)})

\* evaluator.evaluate(cards, hand): the score of the board and the hand
\* together (the concatenation is a value of its own, computed once)
Evaluate(cards, hand) == CHOOSE score \in {HandScore(all) : all \in {cards \o hand}} : TRUE

SuitOf(c) == c % NumSuits

\* the same card is in the sequence twice
HasDuplicate(s) == Cardinality(SeqToSet(s)) < Len(s)

\* the evaluator looks every five of the cards up in its tables, and the
\* lookup raises KeyError on five that no deal can give: five cards of one suit
\* with a card repeated, or five cards of one rank (a repeated card among five
\* that are not of one suit is looked up as a pair)
LookupFails(all) ==
    /\ HasDuplicate(all)
    /\ \E five \in SUBSET (1..Len(all)) :
          /\ Cardinality(five) = 5
          /\ \/ /\ Cardinality({SuitOf(all[k]) : k \in five}) = 1
                /\ Cardinality({all[k] : k \in five}) < 5
             \/ Cardinality({RankOf(all[k]) : k \in five}) = 1

\* treys evaluates hands of five, six or seven cards and raises on any other size
EvaluatorAccepts(cards, hand) ==
    /\ Len(cards) + Len(hand) \in 5..7
    /\ \A all \in {cards \o hand} : ~LookupFails(all)

\* evaluator.class_to_string(evaluator.get_rank_class(score))
ClassToString(score) ==
    <<"High Card", "Pair", "Three of a Kind", "Four of a Kind">>[(8000 - score) \div 1000]

\* engine.py:18-24: <<hand type, score>>; the evaluator accepts the hand
evaluate_best_hand(h, c) ==
    LET score == Evaluate(parse_cards(c), parse_cards(h))
    IN  <<ClassToString(score), score>>

(***************************************************************************)
(* estimate_win_probability, engine.py:27-62.                              *)
(***************************************************************************)
\* engine.py:37-40: a fresh deck without the known cards
RemoveKnownNone(known) == GetFullDeck
RemoveKnown(known) == GetFullDeck \ {_parse_card(c) : c \in known}

\* deck.draw(1)[0]: the possible <<card drawn, deck left>>
DrawKeep(d) == {<<c, d>> : c \in d}
Draw(d) == {<<c, d \ {c}>> : c \in d}

\* engine.py:49
full_board == board \o community_draw

\* engine.py:51
player_score == Evaluate(full_board, hole)

\* engine.py:52: min() of the opponents' scores
best_opp_max == Max({Evaluate(full_board, opp_hands[k]) : k \in 1..Len(opp_hands)})
best_opp == Min({Evaluate(full_board, opp_hands[k]) : k \in 1..Len(opp_hands)})

\* engine.py:54-59: the outcome of a trial
OutcomeLoose(p, o) == IF p <= o THEN "win" ELSE IF p = o THEN "tie" ELSE "loss"
Outcome(p, o) == IF p < o THEN "win" ELSE IF p = o THEN "tie" ELSE "loss"

\* engine.py:55 / 57 / 59: the counters after a trial with outcome oc
TallySkipLoss(oc, w, t, l) ==
    <<IF oc = "win" THEN w + 1 ELSE w, IF oc = "tie" THEN t + 1 ELSE t, l>>
Tally(oc, w, t, l) ==
    <<IF oc = "win" THEN w + 1 ELSE w,
      IF oc = "tie" THEN t + 1 ELSE t,
      IF oc = "loss" THEN l + 1 ELSE l>>

\* engine.py:30-34: the call, up to the loop
SimCall(h, b, n, t) ==
    /\ pc = "idle"
    /\ hole_cards' = h
    /\ community_cards' = b
    /\ num_opponents' = n
    /\ trials' = t
    /\ hole' = parse_cards(h)
    /\ board' = parse_cards(b)
    /\ known_cards' = SeqToSet(h \o b)
    /\ wins' = 0 /\ ties' = 0 /\ losses' = 0
    /\ done_trials' = 0
    /\ pc' = "loop"
    /\ UNCHANGED <<deck, opp_hands, community_draw, result>>

\* engine.py:36-43: the next iteration starts with a fresh deck
NewTrial ==
    /\ pc = "loop"
    /\ done_trials < trials
    /\ deck' = RemoveKnown(known_cards)
    /\ opp_hands' = <<>>
    /\ community_draw' = <<>>
    /\ pc' = "deal_opp"
    /\ UNCHANGED <<hole_cards, community_cards, num_opponents, trials, hole, board,
                   known_cards, wins, ties, losses, done_trials, result>>
    /\ UNCHANGED <<engvars, fnvars>>

\* engine.py:44-45: one opponent's two cards; drawing from an empty deck raises
DealOpp ==
    /\ pc = "deal_opp"
    /\ Len(opp_hands) < num_opponents
    /\ IF Cardinality(deck) < 2
       THEN /\ pc' = "error"
            /\ UNCHANGED <<deck, opp_hands>>
       ELSE \E d1 \in Draw(deck) : \E d2 \in Draw(d1[2]) :
              /\ opp_hands' = Append(opp_hands, <<d1[1], d2[1]>>)
              /\ deck' = d2[2]
              /\ pc' = "deal_opp"
    /\ UNCHANGED <<hole_cards, community_cards, num_opponents, trials, hole, board,
                   known_cards, wins, ties, losses, done_trials, community_draw, result>>
    /\ UNCHANGED <<engvars, fnvars>>

\* engine.py:44, 47: all opponents have their cards
DealtOpps ==
    /\ pc = "deal_opp"
    /\ Len(opp_hands) >= num_opponents
    /\ pc' = "deal_board"
    /\ UNCHANGED <<hole_cards, community_cards, num_opponents, trials, hole, board,
                   known_cards, wins, ties, losses, done_trials, deck, opp_hands,
                   community_draw, result>>
    /\ UNCHANGED <<engvars, fnvars>>

\* engine.py:47-48: one of the 5 - len(board) board cards
DealBoard ==
    /\ pc = "deal_board"
    /\ Len(community_draw) < 5 - Len(board)
    /\ IF deck = {}
       THEN /\ pc' = "error"
            /\ UNCHANGED <<deck, community_draw>>
       ELSE \E d1 \in Draw(deck) :
              /\ community_draw' = Append(community_draw, d1[1])
              /\ deck' = d1[2]
              /\ pc' = "deal_board"
    /\ UNCHANGED <<hole_cards, community_cards, num_opponents, trials, hole, board,
                   known_cards, wins, ties, losses, done_trials, opp_hands, result>>
    /\ UNCHANGED <<engvars, fnvars>>

\* engine.py:48-49: the board is complete
DealtBoard ==
    /\ pc = "deal_board"
    /\ Len(community_draw) >= 5 - Len(board)
    /\ pc' = "eval"
    /\ UNCHANGED <<hole_cards, community_cards, num_opponents, trials, hole, board,
                   known_cards, wins, ties, losses, done_trials, deck, opp_hands,
                   community_draw, result>>
    /\ UNCHANGED <<engvars, fnvars>>

\* engine.py:51-59: evaluate and count the trial; the evaluator raises on a hand
\* it does not accept (the player's or an opponent's) and min() raises on no
\* opponent.
\* The trial's deck and hands are dead after the count and are dropped.
Showdown ==
    /\ pc = "eval"
    /\ IF \/ ~EvaluatorAccepts(full_board, hole)
          \/ opp_hands = <<>>
          \/ \E k \in 1..Len(opp_hands) : ~EvaluatorAccepts(full_board, opp_hands[k])
       THEN /\ pc' = "error"
            /\ UNCHANGED <<wins, ties, losses, done_trials, deck, opp_hands, community_draw>>
       ELSE \E p \in {player_score} : \E o \in {best_opp} :
            \E c \in {Tally(Outcome(p, o), wins, ties, losses)} :
                /\ wins' = c[1]
                /\ ties' = c[2]
                /\ losses' = c[3]
                /\ done_trials' = done_trials + 1
                /\ deck' = {}
                /\ opp_hands' = <<>>
                /\ community_draw' = <<>>
                /\ pc' = "loop"
    /\ UNCHANGED <<hole_cards, community_cards, num_opponents, trials, hole, board,
                   known_cards, result>>
    /\ UNCHANGED <<engvars, fnvars>>

\* engine.py:61-62: the three quotients; dividing by float(0) raises
Quotients(w, t, l, total) == <<<<w, total>>, <<t, total>>, <<l, total>>>>

Return ==
    /\ pc = "loop"
    /\ done_trials >= trials
    /\ IF trials = 0
       THEN /\ pc' = "error"
            /\ UNCHANGED result
       ELSE /\ result' = Quotients(wins, ties, losses, trials)
            /\ pc' = "done"
    /\ UNCHANGED <<hole_cards, community_cards, num_opponents, trials, hole, board,
                   known_cards, wins, ties, losses, done_trials, deck, opp_hands,
                   community_draw>>
    /\ UNCHANGED <<engvars, fnvars>>

SimStep == NewTrial \/ DealOpp \/ DealtOpps \/ DealBoard \/ DealtBoard \/ Showdown \/ Return

SimInit ==
    /\ pc = "idle"
    /\ hole_cards = <<>> /\ community_cards = <<>>
    /\ num_opponents = 0 /\ trials = 0
    /\ hole = <<>> /\ board = <<>>
    /\ known_cards = {}
    /\ wins = 0 /\ ties = 0 /\ losses = 0
    /\ done_trials = 0
    /\ deck = {}
    /\ opp_hands = <<>>
    /\ community_draw = <<>>
    /\ result = <<>>

\* the engine before any call
EngInit ==
    /\ equity_cache = <<>>
    /\ sim_log = {}
    /\ calls = 0
    /\ stage = "idle"
    /\ game_state = <<>>
    /\ opponent_profile = <<>>
    /\ bankroll = 0
    /\ locals = <<>>
    /\ analysis = <<>>

\* no pure function is being applied
FnIdle == arg = <<>> /\ ret = <<>>

(***************************************************************************)
(* SpecSim: calls of estimate_win_probability.                             *)
(***************************************************************************)
\* the hands and boards the simulator is called with
SimHoles == {Toks(<<0, 1>>), Toks(<<4, 9>>)}
SimBoards == {Toks(<<2, 3, 5>>), Toks(<<2, 5, 6, 7>>), Toks(<<2, 3, 5, 6, 8>>)}

SimStart ==
    \E h \in SimHoles, b \in SimBoards, n \in 0..SimMaxOpp, t \in (-1)..SimMaxTrials :
        SimCall(h, b, n, t) /\ UNCHANGED <<engvars, fnvars>>

NextSim == SimStart \/ SimStep

\* nothing has been called yet
Init == SimInit /\ EngInit /\ FnIdle

SpecSim == Init /\ [][NextSim]_vars

(***************************************************************************)
(* Claims about the simulator.                                             *)
(***************************************************************************)
\* the call is valid: two hole cards, at most five board cards, all different
ValidCall ==
    /\ Len(hole_cards) = 2
    /\ Len(community_cards) <= 5
    /\ Cardinality(SeqToSet(hole_cards \o community_cards)) = Len(hole_cards) + Len(community_cards)
    /\ num_opponents >= 1
    /\ trials >= 1

\* a fraction <<n, d>> lies in [0, 1]
InUnit(q) == q[2] > 0 /\ 0 <= q[1] /\ q[1] <= q[2]

\* three fractions sum to exactly 1
SumIsOne(a, b, c) ==
    a[1] * b[2] * c[2] + b[1] * a[2] * c[2] + c[1] * a[2] * b[2] = a[2] * b[2] * c[2]

\* C1: in a valid call every completed trial is counted as exactly one of
\* win, tie, loss: wins + ties + losses is the number of completed trials at
\* every point of the loop and is trials at the end, and the returned
\* probabilities each lie in [0,1] and sum to 1.
C1_ProbabilityClosure ==
    (ValidCall /\ pc \in {"loop", "deal_opp", "deal_board", "eval", "done"}) =>
        /\ wins + ties + losses = done_trials
        /\ wins >= 0 /\ ties >= 0 /\ losses >= 0
        /\ done_trials <= trials
        /\ pc = "done" =>
              /\ wins + ties + losses = trials
              /\ Len(result) = 3
              /\ InUnit(result[1]) /\ InUnit(result[2]) /\ InUnit(result[3])
              /\ SumIsOne(result[1], result[2], result[3])

C1_Witness ==
    /\ ValidCall /\ pc = "done" /\ trials = 2
    /\ wins = 1 /\ losses = 1
    /\ result = <<<<1, 2>>, <<0, 2>>, <<1, 2>>>>

\* the scores of the opponents in the trial being evaluated
OppScores == {Evaluate(full_board, opp_hands[k]) : k \in 1..Len(opp_hands)}

\* C2: a trial is counted as a win iff the player's score strictly beats
\* (is lower than) every opponent's score, as a tie iff some opponent's
\* score equals the player's and none beats it, and as a loss otherwise.
C2_TrialOutcome ==
    [][(pc = "eval" /\ pc' = "loop") =>
          LET p == player_score
              win == \A o \in OppScores : p < o
              tie == (\E o \in OppScores : o = p) /\ ~(\E o \in OppScores : o < p)
          IN  /\ win => <<wins', ties', losses'>> = <<wins + 1, ties, losses>>
              /\ tie => <<wins', ties', losses'>> = <<wins, ties + 1, losses>>
              /\ (~win /\ ~tie) => <<wins', ties', losses'>> = <<wins, ties, losses + 1>>
      ]_vars

\* a showdown against two opponents, one stronger and one weaker than the player
C2_Witness ==
    /\ pc = "eval" /\ num_opponents = 2 /\ Len(opp_hands) = 2
    /\ Cardinality(OppScores) = 2
    /\ player_score > Min(OppScores) /\ player_score < Max(OppScores)

\* the cards dealt so far in the current trial
OppCards == {opp_hands[k][j] : k \in 1..Len(opp_hands), j \in 1..2}
DealtCards == OppCards \cup SeqToSet(community_draw)
KnownCards == SeqToSet(hole) \cup SeqToSet(board)

\* C3: in every trial of a valid call the deck starts as the full deck
\* minus the known hole and board cards and the cards are drawn without
\* replacement: the dealt cards are pairwise distinct, none is a known card,
\* and at the showdown the 2 + 2*num_opponents + 5 cards in play are all
\* different.
C3_NoReplacement ==
    (ValidCall /\ pc \in {"deal_opp", "deal_board", "eval"}) =>
        /\ Cardinality(DealtCards) = 2 * Len(opp_hands) + Len(community_draw)
        /\ DealtCards \cap KnownCards = {}
        /\ deck = GetFullDeck \ (KnownCards \cup DealtCards)
        /\ pc = "eval" =>
              /\ Len(opp_hands) = num_opponents
              /\ Len(full_board) = 5
              /\ Cardinality(KnownCards \cup DealtCards) = 2 + 2 * num_opponents + 5

C3_Witness ==
    /\ ValidCall /\ pc = "eval"
    /\ num_opponents = 2 /\ Len(community_draw) = 2
    /\ Cardinality(KnownCards \cup DealtCards) = 11

(***************************************************************************)
(* poker_math.py, in real arithmetic.  A probability p is the integer      *)
(* p * One; Pct(n) is n/100.  Money is in cents.  A ratio is the fraction  *)
(* <<numerator, denominator>>, and float('inf') is <<1, 0>>.  A product of *)
(* a probability and an amount of money is kept in cents * One.            *)
(***************************************************************************)
Pct(n) == n * (One \div 100)

Inf == <<1, 0>>

\* poker_math.py:75-80
calculate_pot_odds(pot_size, bet_to_call) ==
    IF bet_to_call <= 0 THEN Inf ELSE <<pot_size, bet_to_call>>

\* poker_math.py:82-90
calculate_implied_odds(pot_size, bet_to_call, potential_winnings, win_probability) ==
    IF bet_to_call <= 0 THEN Inf
    ELSE <<(pot_size + potential_winnings) * win_probability, bet_to_call * One>>

\* poker_math.py:92-95, in cents * One
calculate_fold_equity(opponent_fold_probability, pot_size) ==
    opponent_fold_probability * pot_size

\* poker_math.py:97-104, in cents * One
calculate_expected_value(win_prob, tie_prob, pot_size, bet_amount) ==
    LET win_ev == win_prob * pot_size
        tie_ev == tie_prob * (pot_size \div 2)
        loss_ev == (One - win_prob - tie_prob) * (0 - bet_amount)
    IN  win_ev + tie_ev + loss_ev

\* poker_math.py:124-129
calculate_bluff_frequency(pot_size, bet_size) ==
    IF bet_size <= 0 THEN <<0, 1>> ELSE <<pot_size, bet_size>>

\* poker_math.py:189-193, 202: texture_adjustments.get(board_texture, 0.1)
texture_adjustments(board_texture) ==
    CASE board_texture = "dry" -> Pct(5)
      [] board_texture = "wet" -> Pct(15)
      [] board_texture = "coordinated" -> Pct(20)
      [] OTHER -> Pct(10)

\* poker_math.py:196-200, 203: position_adjustments.get(position, 0.03)
rio_position_adjustments(position) ==
    CASE position = "early" -> Pct(5)
      [] position = "middle" -> Pct(3)
      [] position = "late" -> Pct(1)
      [] OTHER -> Pct(3)

\* poker_math.py:181-205
calculate_reverse_implied_odds(current_hand_strength, board_texture, position) ==
    Pct(10) + texture_adjustments(board_texture) + rio_position_adjustments(position)
        - (current_hand_strength \div 10)

\* poker_math.py:211-218, 226: self.position_adjustments.get(position, 0.0)
position_adjustments(position) ==
    CASE position = "early" -> 0 - Pct(5)
      [] position = "middle" -> 0
      [] position = "late" -> Pct(5)
      [] position = "button" -> Pct(8)
      [] position = "small_blind" -> 0 - Pct(3)
      [] position = "big_blind" -> 0 - Pct(2)
      [] OTHER -> 0

\* poker_math.py:229: the stack-to-pot ratio the adjuster uses
AdjusterSpr(stack_size, pot_size) ==
    IF pot_size > 0 THEN <<stack_size, pot_size>> ELSE <<10, 1>>

\* poker_math.py:253-259; spr is a fraction with a positive denominator
_calculate_spr_adjustment(spr, equity) ==
    IF spr[1] < spr[2]
    THEN (IF equity > Pct(70) THEN Pct(5) ELSE 0 - Pct(5))
    ELSE IF spr[1] > 10 * spr[2]
         THEN (IF equity < Pct(30) THEN 0 - Pct(2) ELSE Pct(2))
         ELSE 0

\* poker_math.py:261-268
_calculate_aggression_adjustment(opponent_aggression, equity) ==
    IF opponent_aggression > Pct(70)
    THEN (IF equity < Pct(60) THEN 0 - Pct(3) ELSE Pct(2))
    ELSE IF opponent_aggression < Pct(30)
         THEN (IF equity > Pct(40) THEN Pct(2) ELSE 0 - Pct(1))
         ELSE 0

\* poker_math.py:270-272
_calculate_showdown_value(equity) == (equity * 8) \div 10

\* poker_math.py:239, 285: max(lo, min(hi, x))
ClampOff(lo, hi, x) == x
Clamp(lo, hi, x) == IF x > hi THEN hi ELSE IF x < lo THEN lo ELSE x

\* poker_math.py:274-285
_calculate_bluff_value(position, opponent_tendencies) ==
    LET base == Pct(10) + (IF position \in {"button", "late"} THEN Pct(5) ELSE 0)
        fold_frequency == opponent_tendencies.fold_to_bet
    IN  Clamp(0, Pct(50), base + ((fold_frequency - Pct(50)) * 2) \div 10)

\* poker_math.py:238-239
AdjustedEquity(raw_equity, position_adj, spr_adjustment, aggression_adj) ==
    Clamp(0, One, raw_equity + position_adj + spr_adjustment + aggression_adj)

\* poker_math.py:220-251
calculate_adjusted_equity(raw_equity, position, stack_size, pot_size, opponent_tendencies) ==
    LET position_adj == position_adjustments(position)
        spr == AdjusterSpr(stack_size, pot_size)
        spr_adjustment == _calculate_spr_adjustment(spr, raw_equity)
        aggression_adj ==
            _calculate_aggression_adjustment(opponent_tendencies.aggression, raw_equity)
        adjusted_equity ==
            AdjustedEquity(raw_equity, position_adj, spr_adjustment, aggression_adj)
    IN  [raw_equity |-> raw_equity,
         adjusted_equity |-> adjusted_equity,
         showdown_value |-> _calculate_showdown_value(adjusted_equity),
         bluff_value |-> _calculate_bluff_value(position, opponent_tendencies),
         position_adjustment |-> position_adj]

\* poker_math.py:389-395: the weights before normalization; stack_depth is a fraction
GtoWeights(position, stack_depth) ==
    LET late == IF position \in {"button", "late"} THEN Pct(10) ELSE 0
        short == stack_depth[1] < 20 * stack_depth[2]
    IN  [fold |-> IF short THEN Pct(10) ELSE 0,
         call |-> IF short THEN 0 - Pct(20) ELSE 0,
         raise |-> late + (IF short THEN Pct(10) ELSE 0)]

\* poker_math.py:397-401
Normalize(strategy) ==
    LET total == strategy.fold + strategy.call + strategy.raise
    IN  IF total > 0
        THEN [fold |-> (strategy.fold * One) \div total,
              call |-> (strategy.call * One) \div total,
              raise |-> (strategy.raise * One) \div total]
        ELSE strategy

\* poker_math.py:373-403; the range strength of line 386 is computed and not
\* used; the ranges are not empty (the strength divides by their lengths)
calculate_gto_strategy(position, stack_depth, pot_size, hand_range, opponent_range) ==
    Normalize(GtoWeights(position, stack_depth))

(***************************************************************************)
(* advanced_engine.py: the helpers of AdvancedPokerEngine.  A GameState is *)
(* a record whose position and game_type are the enumerations' values.     *)
(***************************************************************************)
\* advanced_engine.py:212-220
_profile_to_dict(profile) ==
    [vpip |-> profile.vpip,
     pfr |-> profile.pfr,
     aggression |-> profile.aggression,
     fold_to_bet |-> profile.fold_to_cbet,
     fold_to_3bet |-> profile.fold_to_3bet]

\* Counter(...).values(): how often each value occurs in a sequence
CountIn(seq, v) == Cardinality({k \in 1..Len(seq) : seq[k] = v})
MaxCount(seq) == IF seq = <<>> THEN 0 ELSE Max({CountIn(seq, v) : v \in SeqToSet(seq)})

\* advanced_engine.py:228-229: the suits and ranks of the tokens
SuitsOf(cards) == [k \in 1..Len(cards) |-> cards[k][2]]
RanksOf(cards) == [k \in 1..Len(cards) |-> cards[k][1]]

\* advanced_engine.py:243: sorted(...)
Sorted(seq) == SortSeq(seq, LAMBDA a, b : a < b)

\* advanced_engine.py:246-250
HasStraightDraw(numeric_ranks) ==
    \E i \in 1..(Len(numeric_ranks) - 1) : numeric_ranks[i + 1] - numeric_ranks[i] <= 2

\* advanced_engine.py:222-258
_analyze_board_texture(cards) ==
    IF Len(cards) < 3 THEN "preflop"
    ELSE LET suits == SuitsOf(cards)
             ranks == RanksOf(cards)
             max_suit_count == MaxCount(suits)
             numeric_ranks == Sorted(ranks)
             has_straight_draw == HasStraightDraw(numeric_ranks)
         IN  IF max_suit_count >= 3 \/ has_straight_draw THEN "wet"
             ELSE IF Cardinality(SeqToSet(ranks)) = Len(ranks) /\ max_suit_count <= 2
                  THEN "dry"
                  ELSE "coordinated"

\* advanced_engine.py:266: game_state.position in [BUTTON, LATE]
StrongPositionButtonOnly(position) == position = "button"
StrongPosition(position) == position \in {"button", "late"}

\* advanced_engine.py:271, 276, 283, 292: pot_size * 0.75 and the like, in cents
BetOf(pot_size, pct) == (pot_size * pct) \div 100

\* advanced_engine.py:260-298: <<action, bet size>>
_determine_optimal_action(gs, hand_equity, profile) ==
    LET equity == hand_equity.adjusted_equity
        strong == StrongPosition(gs.position)
    IN  IF equity > Pct(80) THEN <<"raise", BetOf(gs.pot_size, 75)>>
        ELSE IF equity > Pct(60)
             THEN (IF strong THEN <<"raise", BetOf(gs.pot_size, 60)>> ELSE <<"call", 0>>)
        ELSE IF equity > Pct(40)
             THEN (IF strong /\ profile.fold_to_cbet > Pct(60)
                   THEN <<"raise", BetOf(gs.pot_size, 50)>>
                   ELSE <<"call", 0>>)
        ELSE IF equity > Pct(25)
             THEN (IF strong /\ profile.fold_to_cbet > Pct(70)
                      /\ hand_equity.bluff_value > Pct(15)
                   THEN <<"raise", BetOf(gs.pot_size, 40)>>
                   ELSE <<"fold", 0>>)
        ELSE <<"fold", 0>>

\* advanced_engine.py:300-311
_estimate_our_range(gs) ==
    IF gs.position = "early"
    THEN <<"AA", "KK", "QQ", "JJ", "AKs", "AKo", "AQs">>
    ELSE IF gs.position = "middle"
         THEN <<"AA", "KK", "QQ", "JJ", "TT", "AKs", "AKo", "AQs", "AQo", "AJs", "KQs">>
         ELSE <<"AA", "KK", "QQ", "JJ", "TT", "99", "88", "AKs", "AKo", "AQs", "AQo",
                "AJs", "AJo", "ATs", "KQs", "KQo", "KJs", "QJs">>

\* advanced_engine.py:313-326
_estimate_opponent_range(gs, profile) ==
    IF profile.vpip > Pct(30)
    THEN <<"AA", "KK", "QQ", "JJ", "TT", "99", "88", "77", "66", "55",
           "AKs", "AKo", "AQs", "AQo", "AJs", "AJo", "ATs", "ATo",
           "KQs", "KQo", "KJs", "KJo", "KTs", "QJs", "QJo", "QTs">>
    ELSE IF profile.vpip < Pct(15)
         THEN <<"AA", "KK", "QQ", "JJ", "TT", "AKs", "AKo", "AQs">>
         ELSE <<"AA", "KK", "QQ", "JJ", "TT", "99", "AKs", "AKo", "AQs", "AQo",
                "AJs", "KQs", "KJs">>

\* advanced_engine.py:331-334: bankroll / buy_in, as a fraction
BankrollRatio(gs, roll) == <<roll, gs.blinds[2] * 100>>

\* a variant that takes the big blind for the buy-in
BankrollRecommendationPerBlind(gs, equity, roll) ==
    LET buy_in == gs.blinds[2]
    IN  IF roll < 20 * buy_in THEN "DANGER"
        ELSE IF roll < 40 * buy_in THEN "CAUTION"
        ELSE IF roll < 100 * buy_in THEN "ACCEPTABLE"
        ELSE "SAFE"

\* advanced_engine.py:328-344; the big blind is positive
_get_bankroll_recommendation(gs, equity, roll) ==
    LET buy_in == gs.blinds[2] * 100
    IN  IF roll < 20 * buy_in THEN "DANGER"
        ELSE IF roll < 40 * buy_in THEN "CAUTION"
        ELSE IF roll < 100 * buy_in THEN "ACCEPTABLE"
        ELSE "SAFE"

\* a variant that finds the bubble in any game type
RiskFactorsAnyGame(gs, hand_equity, profile) ==
    LET bb == gs.blinds[2]
    IN  (IF hand_equity.adjusted_equity < Pct(30) THEN << <<"Low hand equity", 2>> >> ELSE <<>>)
        \o (IF gs.position \in {"early", "small_blind"} THEN << <<"Poor position", 1>> >> ELSE <<>>)
        \o (IF gs.stack_size < 20 * bb THEN << <<"Short stack", 2>> >>
            ELSE IF gs.stack_size > 200 * bb THEN << <<"Deep stack complexity", 1>> >>
            ELSE <<>>)
        \o (IF profile.aggression > Pct(70) THEN << <<"Highly aggressive opponent", 1>> >> ELSE <<>>)
        \o (IF gs.players_left <= gs.paid_spots + 5
            THEN << <<"Bubble situation", 2>> >> ELSE <<>>)

\* advanced_engine.py:353-381: the risk factors found, as <<name, points>>, in order;
\* the big blind is positive
RiskFactors(gs, hand_equity, profile) ==
    LET bb == gs.blinds[2]
    IN  (IF hand_equity.adjusted_equity < Pct(30) THEN << <<"Low hand equity", 2>> >> ELSE <<>>)
        \o (IF gs.position \in {"early", "small_blind"} THEN << <<"Poor position", 1>> >> ELSE <<>>)
        \o (IF gs.stack_size < 20 * bb THEN << <<"Short stack", 2>> >>
            ELSE IF gs.stack_size > 200 * bb THEN << <<"Deep stack complexity", 1>> >>
            ELSE <<>>)
        \o (IF profile.aggression > Pct(70) THEN << <<"Highly aggressive opponent", 1>> >> ELSE <<>>)
        \o (IF gs.game_type = "tournament" /\ gs.players_left <= gs.paid_spots + 5
            THEN << <<"Bubble situation", 2>> >> ELSE <<>>)

RECURSIVE SumPoints(_)
SumPoints(fs) == IF fs = <<>> THEN 0 ELSE fs[1][2] + SumPoints(Tail(fs))

\* advanced_engine.py:383-391
RiskLevelStrict(risk_score) ==
    IF risk_score > 5 THEN "HIGH RISK"
    ELSE IF risk_score > 3 THEN "MODERATE RISK"
    ELSE IF risk_score > 1 THEN "LOW RISK"
    ELSE "MINIMAL RISK"
RiskLevel(risk_score) ==
    IF risk_score >= 5 THEN "HIGH RISK"
    ELSE IF risk_score >= 3 THEN "MODERATE RISK"
    ELSE IF risk_score >= 1 THEN "LOW RISK"
    ELSE "MINIMAL RISK"

\* advanced_engine.py:346-396: the level and the factors named after it
_assess_risk(gs, hand_equity, profile) ==
    LET fs == RiskFactors(gs, hand_equity, profile)
    IN  [level |-> RiskLevel(SumPoints(fs)),
         factors |-> [k \in 1..Len(fs) |-> fs[k][1]]]

\* advanced_engine.py:432-443
_classify_playing_style(profile) ==
    IF profile.vpip > Pct(30) /\ profile.aggression > Pct(60) THEN "Loose-Aggressive (LAG)"
    ELSE IF profile.vpip > Pct(30) /\ profile.aggression < Pct(40)
         THEN "Loose-Passive (Calling Station)"
    ELSE IF profile.vpip < Pct(20) /\ profile.aggression > Pct(60)
         THEN "Tight-Aggressive (TAG)"
    ELSE IF profile.vpip < Pct(20) /\ profile.aggression < Pct(40)
         THEN "Tight-Passive (Rock)"
    ELSE "Balanced/Unknown"

\* advanced_engine.py:445-464
_identify_exploitable_tendencies(profile) ==
    (IF profile.fold_to_cbet > Pct(70) THEN <<"Folds too much to continuation bets">> ELSE <<>>)
    \o (IF profile.fold_to_3bet > Pct(80) THEN <<"Folds too much to 3-bets">> ELSE <<>>)
    \o (IF profile.vpip > Pct(35) THEN <<"Plays too many hands preflop">> ELSE <<>>)
    \o (IF profile.aggression < Pct(30) THEN <<"Too passive - rarely bets for value">> ELSE <<>>)
    \o (IF profile.steal_attempt > Pct(50)
        THEN <<"Steals too frequently from late position">> ELSE <<>>)

\* advanced_engine.py:466-500
_analyze_draw_potential(cards) ==
    IF Len(cards) < 3
    THEN [flush_draw |-> FALSE, straight_draw |-> FALSE, pair_draw |-> TRUE]
    ELSE [flush_draw |-> MaxCount(SuitsOf(cards)) >= 3,
          straight_draw |-> HasStraightDraw(Sorted(RanksOf(cards))),
          pair_draw |-> Len(cards) < 5 \/ MaxCount(RanksOf(cards)) = 1]

\* advanced_engine.py:502-522
_analyze_future_runouts(cards) ==
    LET cards_to_come == 5 - Len(cards)
    IN  IF cards_to_come <= 0
        THEN [improvement_probability |-> 0, danger_cards |-> 0]
        ELSE [improvement_probability |-> Min({Pct(50), cards_to_come * Pct(15)}),
              danger_cards |-> Min({Pct(30), cards_to_come * Pct(10)}),
              cards_to_come |-> cards_to_come]

\* advanced_engine.py:427: the stack-to-pot ratio reported in the breakdown
BreakdownSpr(stack_size, pot_size) ==
    IF pot_size > 0 THEN <<stack_size, pot_size>> ELSE <<0, 1>>

\* advanced_engine.py:398-430; the big blind is positive
_create_detailed_breakdown(gs, hand_equity, profile) ==
    [position_analysis |->
        [position |-> gs.position,
         position_advantage |-> hand_equity.position_adjustment,
         recommended_range |-> _estimate_our_range(gs)],
     equity_breakdown |->
        [raw_equity |-> hand_equity.raw_equity,
         position_adjusted |-> hand_equity.adjusted_equity,
         showdown_value |-> hand_equity.showdown_value,
         bluff_value |-> hand_equity.bluff_value],
     opponent_analysis |->
        [estimated_range |-> _estimate_opponent_range(gs, profile),
         playing_style |-> _classify_playing_style(profile),
         exploitable_tendencies |-> _identify_exploitable_tendencies(profile)],
     board_analysis |->
        [texture |-> _analyze_board_texture(gs.community_cards),
         draw_potential |-> _analyze_draw_potential(gs.community_cards),
         future_runouts |-> _analyze_future_runouts(gs.community_cards)],
     stack_analysis |->
        [effective_stack_bb |-> <<gs.stack_size, gs.blinds[2]>>,
         spr |-> BreakdownSpr(gs.stack_size, gs.pot_size),
         commitment_threshold |-> (gs.stack_size * 3) \div 10]]

(***************************************************************************)
(* Specifications that apply one pure function to arguments drawn from a   *)
(* grid that holds every threshold of the function and its neighbours.     *)
(***************************************************************************)
\* all hundredths 0.00 .. 1.00
Hundredths == {Pct(k) : k \in 0..100}
\* the six positions, and a string that is none of them
Positions == {"early", "middle", "late", "button", "small_blind", "big_blind"}
PositionStrings == Positions \cup {"utg"}
GameTypes == {"cash", "tournament", "sit_and_go"}
\* amounts of money in cents
Dollars(n) == n * 100

\* ---- SpecAdjust: AdvancedEquityCalculator.calculate_adjusted_equity
AdjustArgs ==
    [raw_equity : Hundredths,
     position : PositionStrings,
     stacks : {<<0, 0>>, <<Dollars(100), 0>>, <<Dollars(50), Dollars(100)>>,
               <<Dollars(100), Dollars(100)>>, <<Dollars(1000), Dollars(100)>>,
               <<Dollars(1001), Dollars(100)>>},
     aggression : {0 - Pct(50), 0, Pct(29), Pct(30), Pct(50), Pct(70), Pct(71), One, Pct(150)},
     fold_to_bet : {Pct(60)}]

InitAdjust == SimInit /\ EngInit /\ ret = <<>> /\ arg \in AdjustArgs

ApplyAdjust ==
    /\ ret = <<>>
    /\ ret' = <<calculate_adjusted_equity(arg.raw_equity, arg.position, arg.stacks[1],
                  arg.stacks[2], [aggression |-> arg.aggression, fold_to_bet |-> arg.fold_to_bet])>>
    /\ UNCHANGED <<arg, simvars, engvars>>

SpecAdjust == InitAdjust /\ [][ApplyAdjust]_vars

\* The adjustments as the design states them (stack-to-pot ratio stack/pot, 10 when
\* the pot is 0; aggression bands above 0.7 and below 0.3).
C6_PositionAdj(position) ==
    IF position = "early" THEN 0 - Pct(5)
    ELSE IF position = "late" THEN Pct(5)
    ELSE IF position = "button" THEN Pct(8)
    ELSE IF position = "small_blind" THEN 0 - Pct(3)
    ELSE IF position = "big_blind" THEN 0 - Pct(2)
    ELSE 0
C6_SprAdj(stack, pot, raw) ==
    LET below1 == pot > 0 /\ stack < pot
        above10 == pot > 0 /\ stack > 10 * pot
    IN  IF below1 /\ raw > Pct(70) THEN Pct(5)
        ELSE IF below1 THEN 0 - Pct(5)
        ELSE IF above10 /\ raw < Pct(30) THEN 0 - Pct(2)
        ELSE IF above10 THEN Pct(2)
        ELSE 0
C6_AggressionAdj(aggression, raw) ==
    IF aggression > Pct(70) /\ raw < Pct(60) THEN 0 - Pct(3)
    ELSE IF aggression > Pct(70) THEN Pct(2)
    ELSE IF aggression < Pct(30) /\ raw > Pct(40) THEN Pct(2)
    ELSE IF aggression < Pct(30) THEN 0 - Pct(1)
    ELSE 0
C6_Sum ==
    arg.raw_equity + C6_PositionAdj(arg.position)
        + C6_SprAdj(arg.stacks[1], arg.stacks[2], arg.raw_equity)
        + C6_AggressionAdj(arg.aggression, arg.raw_equity)

\* C6: for every raw equity in [0,1], every position string, stack, pot and
\* opponent aggression (also outside [0,1]), the adjusted equity is the sum
\* raw + position + SPR + aggression adjustment clamped to [0,1], so it
\* always lies in [0,1].
C6_EquityBound ==
    ret /= <<>> =>
        /\ ret[1].adjusted_equity >= 0 /\ ret[1].adjusted_equity <= One
        /\ (C6_Sum < 0 => ret[1].adjusted_equity = 0)
        /\ (C6_Sum > One => ret[1].adjusted_equity = One)
        /\ (C6_Sum >= 0 /\ C6_Sum <= One => ret[1].adjusted_equity = C6_Sum)

\* the sum leaves [0,1] above and is clamped, with an aggression outside [0,1]
C6_Witness ==
    /\ ret /= <<>> /\ arg.aggression > One /\ arg.position = "button"
    /\ C6_Sum > One /\ ret[1].adjusted_equity = One

\* the sum leaves [0,1] below and is clamped
C6_WitnessLow ==
    /\ ret /= <<>> /\ C6_Sum < 0 /\ ret[1].adjusted_equity = 0

\* ---- SpecGto: GameTheoryOptimal.calculate_gto_strategy
GtoArgs ==
    [position : PositionStrings,
     stack_size : {0, Dollars(100), Dollars(299), Dollars(300), Dollars(301),
                   Dollars(2000), Dollars(10000)},
     blinds : {<<Dollars(5), Dollars(10)>>, <<Dollars(1), Dollars(2)>>,
               <<Dollars(25), Dollars(50)>>}]

InitGto == SimInit /\ EngInit /\ ret = <<>> /\ arg \in GtoArgs

ApplyGto ==
    /\ ret = <<>>
    /\ ret' = <<calculate_gto_strategy(arg.position,
                  <<arg.stack_size, arg.blinds[1] + arg.blinds[2]>>, 0,
                  <<"AA">>, <<"KK">>)>>
    /\ UNCHANGED <<arg, simvars, engvars>>

SpecGto == InitGto /\ [][ApplyGto]_vars

\* C7: for every position and stack depth the {fold, call, raise} vector
\* returned by calculate_gto_strategy sums to 1.0.
C7_StrategySumsToOne ==
    ret /= <<>> => ret[1].fold + ret[1].call + ret[1].raise = One

\* ---- SpecAction: AdvancedPokerEngine._determine_optimal_action
ActionArgs ==
    [adjusted_equity : Hundredths,
     position : Positions,
     fold_to_cbet : {Pct(50), Pct(60), Pct(61), Pct(70), Pct(71), Pct(90)},
     bluff_value : {Pct(10), Pct(15), Pct(16), Pct(30)},
     pot_size : {0, Dollars(100)}]

InitAction == SimInit /\ EngInit /\ ret = <<>> /\ arg \in ActionArgs

ApplyAction ==
    /\ ret = <<>>
    /\ ret' = <<_determine_optimal_action(
                  [position |-> arg.position, pot_size |-> arg.pot_size],
                  [adjusted_equity |-> arg.adjusted_equity, bluff_value |-> arg.bluff_value],
                  [fold_to_cbet |-> arg.fold_to_cbet])>>
    /\ UNCHANGED <<arg, simvars, engvars>>

SpecAction == InitAction /\ [][ApplyAction]_vars

\* the five bands of the rule, as <<action, hundredths of the pot>>
C8_Band ==
    LET e == arg.adjusted_equity
        strong == arg.position \in {"button", "late"}
    IN  CASE e > Pct(80) -> <<"raise", 75>>
          [] e > Pct(60) /\ e <= Pct(80) -> IF strong THEN <<"raise", 60>> ELSE <<"call", 0>>
          [] e > Pct(40) /\ e <= Pct(60) ->
                IF strong /\ arg.fold_to_cbet > Pct(60) THEN <<"raise", 50>> ELSE <<"call", 0>>
          [] e > Pct(25) /\ e <= Pct(40) ->
                IF strong /\ arg.fold_to_cbet > Pct(70) /\ arg.bluff_value > Pct(15)
                THEN <<"raise", 40>> ELSE <<"fold", 0>>
          [] e <= Pct(25) -> <<"fold", 0>>

\* C8: _determine_optimal_action is the five-band rule on the adjusted
\* equity, with strong position = button or late; e = 0.85 with pot = 100
\* gives raise with bet size 75.0, and fold and call carry bet size 0.
C8_FiveBands ==
    ret /= <<>> =>
        /\ ret[1][1] = C8_Band[1]
        /\ 100 * ret[1][2] = C8_Band[2] * arg.pot_size
        /\ (arg.adjusted_equity = Pct(85) /\ arg.pot_size = Dollars(100)) =>
              ret[1] = <<"raise", Dollars(75)>>
        /\ ret[1][1] \in {"fold", "call"} => ret[1][2] = 0

\* scenario 4: e = 0.85 in a strong position with pot 100
C8_Witness ==
    /\ ret /= <<>> /\ ret[1] = <<"raise", Dollars(75)>> /\ arg.adjusted_equity = Pct(85)
    /\ arg.position = "late" /\ arg.pot_size = Dollars(100)

\* the bluff raise of the fourth band
C8_WitnessBluff ==
    /\ ret /= <<>> /\ ret[1] = <<"raise", Dollars(40)>> /\ arg.adjusted_equity = Pct(26)
    /\ arg.position = "late"

\* ---- SpecRisk: AdvancedPokerEngine._assess_risk
RiskArgs ==
    [adjusted_equity : {Pct(29), Pct(30), Pct(50)},
     position : Positions,
     stack_size : {Dollars(100), 19999, Dollars(200), Dollars(2000), 200001, Dollars(5000)},
     aggression : {Pct(50), Pct(70), Pct(71), Pct(90)},
     game_type : GameTypes,
     players_left : {5, 9, 10, 20},
     paid_spots : {0, 4, 5}]

InitRisk == SimInit /\ EngInit /\ ret = <<>> /\ arg \in RiskArgs

ApplyRisk ==
    /\ ret = <<>>
    /\ ret' = <<_assess_risk(
                  [position |-> arg.position, stack_size |-> arg.stack_size,
                   blinds |-> <<Dollars(5), Dollars(10)>>, game_type |-> arg.game_type,
                   players_left |-> arg.players_left, paid_spots |-> arg.paid_spots],
                  [adjusted_equity |-> arg.adjusted_equity],
                  [aggression |-> arg.aggression])>>
    /\ UNCHANGED <<arg, simvars, engvars>>

SpecRisk == InitRisk /\ [][ApplyRisk]_vars

\* the score of the claim: five flags, each worth 1 or 2 points (big blind 10)
C9_Score ==
    (IF arg.adjusted_equity < Pct(30) THEN 2 ELSE 0)
    + (IF arg.position \in {"early", "small_blind"} THEN 1 ELSE 0)
    + (IF arg.stack_size < 20 * Dollars(10) THEN 2
       ELSE IF arg.stack_size > 200 * Dollars(10) THEN 1 ELSE 0)
    + (IF arg.aggression > Pct(70) THEN 1 ELSE 0)
    + (IF arg.game_type = "tournament" /\ arg.players_left <= arg.paid_spots + 5
       THEN 2 ELSE 0)

\* C9: _assess_risk adds the points of the five flags and maps the score to
\* one tier: >= 5 HIGH, >= 3 MODERATE, >= 1 LOW, otherwise MINIMAL; the tier
\* is MINIMAL iff no risk factor is listed.
C9_RiskTiers ==
    ret /= <<>> =>
        /\ (C9_Score >= 5) <=> (ret[1].level = "HIGH RISK")
        /\ (C9_Score >= 3 /\ C9_Score < 5) <=> (ret[1].level = "MODERATE RISK")
        /\ (C9_Score >= 1 /\ C9_Score < 3) <=> (ret[1].level = "LOW RISK")
        /\ (C9_Score < 1) <=> (ret[1].level = "MINIMAL RISK")
        /\ (ret[1].level = "MINIMAL RISK") <=> (ret[1].factors = <<>>)

\* all five flags are raised: the score is 8
C9_Witness ==
    /\ ret /= <<>> /\ C9_Score = 8 /\ ret[1].level = "HIGH RISK" /\ Len(ret[1].factors) = 5

\* no flag is raised
C9_WitnessMinimal ==
    /\ ret /= <<>> /\ ret[1].level = "MINIMAL RISK" /\ arg.game_type = "tournament"

(***************************************************************************)
(* AdvancedPokerEngine.analyze_comprehensive, advanced_engine.py:92-191,   *)
(* with _calculate_raw_equity and the equity cache, :193-210.  stage is    *)
(* the point the call has reached; an exception ends it in "failed".       *)
(***************************************************************************)
\* advanced_engine.py:197
CacheKeyNoCount(h, c, n) == <<h, c>>
CacheKey(h, c, n) == <<h, c, n>>

\* a fraction of the simulator as a fixed-point probability
FracToUnits(q) == (q[1] * One) \div q[2]

\* advanced_engine.py:208: win_prob + (tie_prob * 0.5)
EquityOf(res) == FracToUnits(res[1]) + (FracToUnits(res[2]) \div 2)

\* a local of analyze_comprehensive is assigned
Put(name, v) == (name :> v) @@ locals

\* the simulator's frame is popped
SimReset ==
    /\ pc' = "idle"
    /\ hole_cards' = <<>> /\ community_cards' = <<>>
    /\ num_opponents' = 0 /\ trials' = 0
    /\ hole' = <<>> /\ board' = <<>>
    /\ known_cards' = {}
    /\ wins' = 0 /\ ties' = 0 /\ losses' = 0
    /\ done_trials' = 0
    /\ deck' = {}
    /\ opp_hands' = <<>>
    /\ community_draw' = <<>>
    /\ result' = <<>>

\* advanced_engine.py:92-98: the call
Request(gs, profile, roll) ==
    /\ stage \in {"idle", "Assembled", "failed"}
    /\ calls < MaxCalls
    /\ calls' = calls + 1
    /\ game_state' = gs
    /\ opponent_profile' = profile
    /\ bankroll' = roll
    /\ locals' = <<>>
    /\ analysis' = <<>>
    /\ stage' = "called"
    /\ UNCHANGED <<equity_cache, sim_log, simvars, fnvars>>

\* advanced_engine.py:100-103: evaluate_best_hand; the evaluator raises on a hand
\* it does not accept
EvaluateHand ==
    /\ stage = "called"
    /\ IF EvaluatorAccepts(game_state.community_cards, game_state.hole_cards)
       THEN /\ locals' = Put("hand_type",
                             evaluate_best_hand(game_state.hole_cards,
                                                game_state.community_cards)[1])
            /\ stage' = "evaluated"
       ELSE /\ stage' = "failed"
            /\ UNCHANGED locals
    /\ UNCHANGED <<equity_cache, sim_log, calls, game_state, opponent_profile, bankroll,
                   analysis, simvars, fnvars>>

\* the key of the current call
CurrentKey ==
    CacheKey(game_state.hole_cards, game_state.community_cards, game_state.num_opponents)

\* a variant that drops the entry it returns
CacheHitEvict ==
    /\ stage = "evaluated"
    /\ CurrentKey \in DOMAIN equity_cache
    /\ locals' = Put("raw_equity", equity_cache[CurrentKey])
    /\ equity_cache' = [k \in DOMAIN equity_cache \ {CurrentKey} |-> equity_cache[k]]
    /\ stage' = "RawEquityComputed"
    /\ UNCHANGED <<sim_log, calls, game_state, opponent_profile, bankroll,
                   analysis, simvars, fnvars>>

\* advanced_engine.py:105-109, 197-200: the key is in the cache
CacheHit ==
    /\ stage = "evaluated"
    /\ CurrentKey \in DOMAIN equity_cache
    /\ locals' = Put("raw_equity", equity_cache[CurrentKey])
    /\ stage' = "RawEquityComputed"
    /\ UNCHANGED <<equity_cache, sim_log, calls, game_state, opponent_profile, bankroll,
                   analysis, simvars, fnvars>>

\* advanced_engine.py:105-109, 197-206: it is not: estimate_win_probability is called
CacheMiss ==
    /\ stage = "evaluated"
    /\ CurrentKey \notin DOMAIN equity_cache
    /\ SimCall(game_state.hole_cards, game_state.community_cards,
               game_state.num_opponents, EngTrials)
    /\ stage' = "simulating"
    /\ UNCHANGED <<equity_cache, sim_log, calls, game_state, opponent_profile, bankroll,
                   locals, analysis, fnvars>>

\* advanced_engine.py:204-210: the simulator returned: the equity is stored and returned
StoreEquity ==
    /\ stage = "simulating"
    /\ pc = "done"
    /\ LET equity == EquityOf(result)
       IN  /\ equity_cache' = (CurrentKey :> equity) @@ equity_cache
           /\ sim_log' = sim_log \cup {<<hole_cards, community_cards, num_opponents, equity>>}
           /\ locals' = Put("raw_equity", equity)
    /\ stage' = "RawEquityComputed"
    /\ SimReset
    /\ UNCHANGED <<calls, game_state, opponent_profile, bankroll, analysis, fnvars>>

\* a variant that caches a zero equity when the simulator raises
SimFailedCaching ==
    /\ stage = "simulating"
    /\ pc = "error"
    /\ stage' = "failed"
    /\ equity_cache' = (CurrentKey :> 0) @@ equity_cache
    /\ SimReset
    /\ UNCHANGED <<sim_log, calls, game_state, opponent_profile, bankroll,
                   locals, analysis, fnvars>>

\* advanced_engine.py:204-206: the simulator raised: so does analyze_comprehensive
SimFailed ==
    /\ stage = "simulating"
    /\ pc = "error"
    /\ stage' = "failed"
    /\ SimReset
    /\ UNCHANGED <<equity_cache, sim_log, calls, game_state, opponent_profile, bankroll,
                   locals, analysis, fnvars>>

\* advanced_engine.py:111-116
Adjust ==
    /\ stage = "RawEquityComputed"
    /\ locals' = Put("hand_equity",
                     calculate_adjusted_equity(locals["raw_equity"], game_state.position,
                         game_state.stack_size, game_state.pot_size,
                         _profile_to_dict(opponent_profile)))
    /\ stage' = "Adjusted"
    /\ UNCHANGED <<equity_cache, sim_log, calls, game_state, opponent_profile, bankroll,
                   analysis, simvars, fnvars>>

\* advanced_engine.py:118-140
Odds ==
    /\ stage = "Adjusted"
    /\ LET raw == locals["raw_equity"]
           bet == game_state.stack_size \div 10
       IN  locals' =
               [pot_odds |-> calculate_pot_odds(game_state.pot_size, bet),
                implied_odds |-> calculate_implied_odds(game_state.pot_size, bet,
                                     game_state.stack_size \div 2, raw),
                reverse_implied_odds |-> calculate_reverse_implied_odds(raw,
                                     _analyze_board_texture(game_state.community_cards),
                                     game_state.position),
                fold_equity |-> calculate_fold_equity(opponent_profile.fold_to_cbet,
                                     game_state.pot_size),
                expected_value |-> calculate_expected_value(raw, Pct(5),
                                     game_state.pot_size, bet)] @@ locals
    /\ stage' = "OddsComputed"
    /\ UNCHANGED <<equity_cache, sim_log, calls, game_state, opponent_profile, bankroll,
                   analysis, simvars, fnvars>>

\* advanced_engine.py:142-150
ChooseAction ==
    /\ stage = "OddsComputed"
    /\ LET act == _determine_optimal_action(game_state, locals["hand_equity"],
                                            opponent_profile)
       IN  locals' =
               [optimal_action |-> act[1],
                bet_sizing |-> act[2],
                bluff_frequency |-> calculate_bluff_frequency(game_state.pot_size, act[2])]
               @@ locals
    /\ stage' = "ActionChosen"
    /\ UNCHANGED <<equity_cache, sim_log, calls, game_state, opponent_profile, bankroll,
                   analysis, simvars, fnvars>>

\* advanced_engine.py:152-168: the strategy, the bankroll advice and the risk; the
\* divisions by the blinds (:158, :335, :364) raise when the blinds are 0
AssessRisk ==
    /\ stage = "ActionChosen"
    /\ IF game_state.blinds[1] + game_state.blinds[2] = 0 \/ game_state.blinds[2] = 0
       THEN /\ stage' = "failed"
            /\ UNCHANGED locals
       ELSE /\ locals' =
                  [gto_strategy |-> calculate_gto_strategy(game_state.position,
                                        <<game_state.stack_size,
                                          game_state.blinds[1] + game_state.blinds[2]>>,
                                        game_state.pot_size,
                                        _estimate_our_range(game_state),
                                        _estimate_opponent_range(game_state, opponent_profile)),
                   bankroll_recommendation |->
                       _get_bankroll_recommendation(game_state, locals["raw_equity"], bankroll),
                   risk_assessment |->
                       _assess_risk(game_state, locals["hand_equity"], opponent_profile)]
                  @@ locals
            /\ stage' = "RiskAssessed"
    /\ UNCHANGED <<equity_cache, sim_log, calls, game_state, opponent_profile, bankroll,
                   analysis, simvars, fnvars>>

\* a variant that computes the odds again in place of assembling the result
AssembleRedo ==
    /\ stage = "RiskAssessed"
    /\ stage' = "OddsComputed"
    /\ UNCHANGED <<equity_cache, sim_log, calls, game_state, opponent_profile, bankroll,
                   locals, analysis, simvars, fnvars>>

\* advanced_engine.py:170-191
Assemble ==
    /\ stage = "RiskAssessed"
    /\ analysis' =
          [hand_strength |-> locals["hand_type"],
           raw_equity |-> locals["raw_equity"],
           adjusted_equity |-> locals["hand_equity"].adjusted_equity,
           pot_odds |-> locals["pot_odds"],
           implied_odds |-> locals["implied_odds"],
           reverse_implied_odds |-> locals["reverse_implied_odds"],
           fold_equity |-> locals["fold_equity"],
           expected_value |-> locals["expected_value"],
           optimal_action |-> locals["optimal_action"],
           bet_sizing |-> locals["bet_sizing"],
           bluff_frequency |-> locals["bluff_frequency"],
           gto_strategy |-> locals["gto_strategy"],
           bankroll_recommendation |-> locals["bankroll_recommendation"],
           risk_assessment |-> locals["risk_assessment"],
           detailed_breakdown |->
               _create_detailed_breakdown(game_state, locals["hand_equity"], opponent_profile)]
    /\ stage' = "Assembled"
    /\ UNCHANGED <<equity_cache, sim_log, calls, game_state, opponent_profile, bankroll,
                   locals, simvars, fnvars>>

\* ---- the calls made of the engine
\* the hole cards, in the two orders, and the boards: all five cards, four, none
EngHole == Toks(<<0, 4>>)
EngHoleSwapped == Toks(<<4, 0>>)
River == Toks(<<1, 2, 5, 6, 8>>)
Turn == Toks(<<1, 2, 5, 6>>)
Preflop == <<>>

\* advanced_engine.py:47-56: an OpponentProfile, the fields not given at their defaults
Profile(vpip, aggression, fold_to_cbet) ==
    [vpip |-> vpip, pfr |-> Pct(18), aggression |-> aggression,
     fold_to_cbet |-> fold_to_cbet, fold_to_3bet |-> Pct(70),
     steal_attempt |-> Pct(30), fold_to_steal |-> Pct(80)]

\* the rest of a call: the situation, the opponent and the bankroll
CashGame ==
    [position |-> "button", pot_size |-> Dollars(100), stack_size |-> Dollars(2000),
     game_type |-> "cash", blinds |-> <<Dollars(5), Dollars(10)>>,
     players_left |-> 9, paid_spots |-> 0, prize_pool |-> <<>>,
     profile |-> Profile(Pct(25), Pct(50), Pct(60)), bankroll |-> Dollars(10000)]
Bubble ==
    [position |-> "early", pot_size |-> 0, stack_size |-> Dollars(100),
     game_type |-> "tournament", blinds |-> <<Dollars(5), Dollars(10)>>,
     players_left |-> 5, paid_spots |-> 3, prize_pool |-> <<Dollars(1000), Dollars(500)>>,
     profile |-> Profile(Pct(40), Pct(80), Pct(75)), bankroll |-> Dollars(500)]
NoBlinds ==
    [position |-> "middle", pot_size |-> Dollars(100), stack_size |-> Dollars(2000),
     game_type |-> "cash", blinds |-> <<0, 0>>,
     players_left |-> 9, paid_spots |-> 0, prize_pool |-> <<>>,
     profile |-> Profile(Pct(25), Pct(50), Pct(60)), bankroll |-> Dollars(10000)]

\* <<hole cards, board, opponents, situation>>: a hand, the same hand with
\* the hole cards swapped, with two opponents, at a tournament bubble, with
\* blinds of zero, with no opponent, and before the flop
EngCalls ==
    {<<EngHole, River, 1, CashGame>>,
     <<EngHoleSwapped, River, 1, CashGame>>,
     <<EngHole, River, 2, CashGame>>,
     <<EngHole, River, 1, Bubble>>,
     <<EngHole, River, 1, NoBlinds>>,
     <<EngHole, Turn, 0, CashGame>>,
     <<EngHole, Preflop, 1, CashGame>>}

\* advanced_engine.py:31-45: the GameState of a call
GameState(h, c, n, sc) ==
    [hole_cards |-> h, community_cards |-> c, pot_size |-> sc.pot_size,
     stack_size |-> sc.stack_size, position |-> sc.position, num_opponents |-> n,
     game_type |-> sc.game_type, blinds |-> sc.blinds,
     players_left |-> sc.players_left, paid_spots |-> sc.paid_spots,
     prize_pool |-> sc.prize_pool]

Analyze ==
    \E c \in EngCalls :
        Request(GameState(c[1], c[2], c[3], c[4]), c[4].profile, c[4].bankroll)

EngStep ==
    \/ EvaluateHand \/ CacheHit \/ CacheMiss \/ StoreEquity \/ SimFailed
    \/ Adjust \/ Odds \/ ChooseAction \/ AssessRisk \/ Assemble

\* calls of analyze_comprehensive, one after the other; the simulator runs inside
\* _calculate_raw_equity
Next == Analyze \/ EngStep \/ SimStep

Spec == Init /\ [][Next]_vars

\* the steps of a call are taken: the interpreter runs the call to its end
SpecLive == Spec /\ WF_vars(EngStep \/ SimStep)

(***************************************************************************)
(* Claims about the equity cache and the stages of a call.                 *)
(***************************************************************************)
\* two cache keys name the same hand: the same hole cards and the same board
\* cards, in any order, and the same number of opponents
SameHand(k1, k2) ==
    /\ SeqToSet(k1[1]) = SeqToSet(k2[1])
    /\ SeqToSet(k1[2]) = SeqToSet(k2[2])
    /\ k1[3] = k2[3]

\* C4: the cache key is insensitive to card order: a call with the same
\* hole cards and board cards in a different order, and the same n, hits
\* the existing entry: it starts no simulation and adds no second entry.
C4_OrderInsensitiveKey ==
    /\ \A k1 \in DOMAIN equity_cache : \A k2 \in DOMAIN equity_cache :
           SameHand(k1, k2) => k1 = k2
    /\ stage = "simulating" =>
           \A k \in DOMAIN equity_cache : ~SameHand(k, CurrentKey)

\* the call has its raw equity
HasRawEquity ==
    stage \in {"RawEquityComputed", "Adjusted", "OddsComputed", "ActionChosen",
               "RiskAssessed", "Assembled"}

\* C5: every equity _calculate_raw_equity returns was produced by a
\* simulation run with exactly the caller's hole cards, board cards and
\* opponent count: never a value stored for another opponent count or for
\* other cards.
C5_EquityOfOwnKey ==
    HasRawEquity =>
        <<game_state.hole_cards, game_state.community_cards, game_state.num_opponents,
          locals["raw_equity"]>> \in sim_log

\* the second call has the cards of the first and another opponent count, and
\* its equity is not the one stored for the first
C5_Witness ==
    /\ stage = "RawEquityComputed" /\ calls = 2
    /\ \E k \in DOMAIN equity_cache :
          /\ k[1] = game_state.hole_cards /\ k[2] = game_state.community_cards
          /\ k[3] /= game_state.num_opponents
          /\ equity_cache[k] /= locals["raw_equity"]

\* one step of a call, by its stages: each stage is entered from the stage
\* before it and left for the stage after it (or the call fails), and the
\* assembled result is left only by a new call
C10_Order ==
    /\ stage' /= stage =>
          /\ stage' = "RawEquityComputed" => stage \in {"evaluated", "simulating"}
          /\ stage' = "Adjusted" <=> stage = "RawEquityComputed"
          /\ stage' = "OddsComputed" <=> stage = "Adjusted"
          /\ (stage' = "ActionChosen" <=> stage = "OddsComputed")
          /\ stage' = "RiskAssessed" => stage = "ActionChosen"
          /\ stage = "ActionChosen" => stage' \in {"RiskAssessed", "failed"}
          /\ stage' = "Assembled" <=> stage = "RiskAssessed"
          /\ stage = "Assembled" => stage' = "called"
    /\ stage' = stage => (HasRawEquity => UNCHANGED vars)

\* C10: a successful analyze_comprehensive call passes through raw equity
\* computed, equity adjusted, odds computed, action chosen, risk assessed,
\* result assembled in that order, each once and with no return to an
\* earlier stage, and every call ends: in the assembled state unless it
\* fails.
C10_StagesInOrder ==
    /\ [][C10_Order]_vars
    /\ (stage = "called") ~> (stage \in {"Assembled", "failed"})
    /\ (stage = "RawEquityComputed" /\ game_state.blinds[2] > 0) ~> (stage = "Assembled")

\* the engine's second call is assembled, with one simulation run so far
C10_Witness ==
    /\ stage = "Assembled" /\ calls = 2
    /\ analysis /= <<>>
    /\ Cardinality(DOMAIN equity_cache) = 1
    /\ Cardinality(sim_log) = 1

(***************************************************************************)
(* Claims about a call that fails.                                         *)
(***************************************************************************)

\* the call is before its raw equity: in the evaluator or in the simulator
BeforeRawEquity == stage \in {"called", "evaluated", "simulating"}

\* C11: if the hand evaluator or the equity simulator fails during
\* analyze_comprehensive, the whole analysis fails: no AdvancedAnalysis
\* (full or partial) is returned and the equity cache is left exactly as it
\* was before the call.  The call starts with no result and leaves the cache
\* alone; up to the raw equity, and in the step that fails there, the cache
\* is unchanged and there is still no result; a failed call has no result.
C11_FailureLeavesNothing ==
    /\ [][/\ stage' = "called" /\ stage /= "called"
              => equity_cache' = equity_cache /\ analysis' = <<>>
          /\ BeforeRawEquity /\ stage' \in {"called", "evaluated", "simulating", "failed"}
              => equity_cache' = equity_cache /\ analysis' = <<>>]_vars
    /\ [](stage = "failed" => analysis = <<>>)

\* the simulator failed in a call made with an equity already cached
C11_Witness ==
    /\ stage = "failed" /\ DOMAIN locals = {"hand_type"}
    /\ equity_cache /= <<>>

\* the evaluator failed in a call made with an equity already cached
C11_WitnessEvaluator ==
    /\ stage = "failed" /\ locals = <<>>
    /\ equity_cache /= <<>>

(***************************************************************************)
(* app.py: /analyze-advanced builds the GameState from the request.  A     *)
(* token of the request is a string, here the sequence of its characters'  *)
(* code points.                                                            *)
(***************************************************************************)
\* the enumerations' values, advanced_engine.py:18-29, spelled out
Spelling ==
    ("early" :> <<101, 97, 114, 108, 121>>)
    @@ ("middle" :> <<109, 105, 100, 100, 108, 101>>)
    @@ ("late" :> <<108, 97, 116, 101>>)
    @@ ("button" :> <<98, 117, 116, 116, 111, 110>>)
    @@ ("small_blind" :> <<115, 109, 97, 108, 108, 95, 98, 108, 105, 110, 100>>)
    @@ ("big_blind" :> <<98, 105, 103, 95, 98, 108, 105, 110, 100>>)
    @@ ("cash" :> <<99, 97, 115, 104>>)
    @@ ("tournament" :> <<116, 111, 117, 114, 110, 97, 109, 101, 110, 116>>)
    @@ ("sit_and_go" :> <<115, 105, 116, 95, 97, 110, 100, 95, 103, 111>>)

\* str.lower on one character and on a string
LowerChar(c) == IF c \in 65..90 THEN c + 32 ELSE c
Lower(token) == [k \in 1..Len(token) |-> LowerChar(token[k])]
\* str.upper and str.capitalize, for the requests' tokens
UpperChar(c) == IF c \in 97..122 THEN c - 32 ELSE c
Upper(token) == [k \in 1..Len(token) |-> UpperChar(token[k])]
Capitalize(token) ==
    [k \in 1..Len(token) |-> IF k = 1 THEN UpperChar(token[k]) ELSE LowerChar(token[k])]

\* Enum(value): the member with that value, or ValueError
EnumLookup(values, token) ==
    IF \E v \in values : Spelling[v] = token
    THEN CHOOSE v \in values : Spelling[v] = token
    ELSE "ValueError"

\* a variant that looks the token up as it is given
ResolveAsGiven(values, token, default) ==
    IF EnumLookup(values, token) = "ValueError" THEN default ELSE EnumLookup(values, token)

\* app.py:64-72: Enum(token.lower()), and the default on ValueError
Resolve(values, token, default) ==
    IF EnumLookup(values, Lower(token)) = "ValueError"
    THEN default
    ELSE EnumLookup(values, Lower(token))

\* app.py:63-87: the position and the game type of the GameState
BuildGameState(position, game_type) ==
    [position |-> Resolve(Positions, position, "middle"),
     game_type |-> Resolve(GameTypes, game_type, "cash")]

\* ---- SpecTokens: the tokens of a request
\* every value in three letter cases, and strings that are no value: the empty
\* string, "utg", "buttons", " cash", "sit-and-go"
Cased(values) ==
    UNION {{Spelling[v], Upper(Spelling[v]), Capitalize(Spelling[v])} : v \in values}
NoValue == {<<>>, <<117, 116, 103>>, <<98, 117, 116, 116, 111, 110, 115>>, <<32, 99, 97, 115, 104>>, <<115, 105, 116, 45, 97, 110, 100, 45, 103, 111>>}
TokenArgs ==
    [position : Cased(Positions) \cup NoValue \cup {Spelling["cash"]},
     game_type : Cased(GameTypes) \cup NoValue \cup {Spelling["button"]}]

InitTokens == SimInit /\ EngInit /\ ret = <<>> /\ arg \in TokenArgs

ApplyTokens ==
    /\ ret = <<>>
    /\ ret' = <<BuildGameState(arg.position, arg.game_type)>>
    /\ UNCHANGED <<arg, simvars, engvars>>

SpecTokens == InitTokens /\ [][ApplyTokens]_vars

\* the value a token is recognized as, in any letter case
Recognized(values, token) == {v \in values : Upper(Spelling[v]) = Upper(token)}

\* C12: for any string given as the position token or the game-type token,
\* building the GameState never fails: a token that is not one of the six
\* positions resolves to middle and a token that is not one of the three game
\* types resolves to cash, while recognized tokens (in any letter case)
\* resolve to themselves.
C12_TokensResolve ==
    ret /= <<>> =>
        /\ ret[1].position \in Positions /\ ret[1].game_type \in GameTypes
        /\ IF Recognized(Positions, arg.position) = {}
           THEN ret[1].position = "middle"
           ELSE ret[1].position \in Recognized(Positions, arg.position)
        /\ IF Recognized(GameTypes, arg.game_type) = {}
           THEN ret[1].game_type = "cash"
           ELSE ret[1].game_type \in Recognized(GameTypes, arg.game_type)

\* BUTTON and Sit_and_go resolve to button and sit_and_go
C12_Witness ==
    /\ ret /= <<>>
    /\ arg.position = Upper(Spelling["button"]) /\ ret[1].position = "button"
    /\ arg.game_type = Capitalize(Spelling["sit_and_go"]) /\ ret[1].game_type = "sit_and_go"

\* "buttons" and the empty string resolve to middle and cash
C12_WitnessDefault ==
    /\ ret /= <<>>
    /\ arg.position = <<98, 117, 116, 116, 111, 110, 115>> /\ ret[1].position = "middle"
    /\ arg.game_type = <<>> /\ ret[1].game_type = "cash"

(***************************************************************************)
(* Claims about the bankroll recommendation.                               *)
(***************************************************************************)
\* app.py:236-246: the ratio and the recommendation of /analyze/bankroll; the
\* stake level is positive
RouteBankroll(roll, stake_level) ==
    [bankroll_ratio |-> <<roll, stake_level>>,
     recommendation |-> IF roll > 100 * stake_level THEN "SAFE"
                        ELSE IF roll > 40 * stake_level THEN "CAUTION"
                        ELSE "DANGER"]

\* the fraction r is the whole number n
IsRatio(r, n) == r[2] > 0 /\ r[1] = n * r[2]

\* the assembled call of scenario 5: bankroll 10000, big blind 10
Scenario5 ==
    /\ stage = "Assembled"
    /\ bankroll = Dollars(10000) /\ game_state.blinds[2] = Dollars(10)

\* C13: for bankroll = 10000 and a big blind of 10 the bankroll ratio is 100
\* buy-ins and the recommendation tier of the analysis is SAFE.
C13_Scenario5Safe ==
    Scenario5 =>
        /\ IsRatio(BankrollRatio(game_state, bankroll), 100)
        /\ analysis.bankroll_recommendation = "SAFE"

\* C13, amended: for bankroll = 10000 and a big blind of 10 the bankroll
\* ratio is 10 buy-ins of 100 big blinds and the recommendation tier of
\* analyze_comprehensive is DANGER; /analyze/bankroll, which divides by the
\* stake level itself, reports the ratio 1000 and SAFE.
C13_Scenario5Danger ==
    Scenario5 =>
        /\ IsRatio(BankrollRatio(game_state, bankroll), 10)
        /\ analysis.bankroll_recommendation = "DANGER"
        /\ IsRatio(RouteBankroll(bankroll, game_state.blinds[2]).bankroll_ratio, 1000)
        /\ RouteBankroll(bankroll, game_state.blinds[2]).recommendation = "SAFE"

\* scenario 5 is assembled
C13_Witness ==
    /\ Scenario5
    /\ analysis.bankroll_recommendation = "DANGER"

(***************************************************************************)
(* SpecSimEdge: one call of evaluate_best_hand or estimate_win_probability *)
(* with cards given twice, or with more opponents than the deck can serve, *)
(* next to calls that are in order.                                        *)
(***************************************************************************)
\* <<hole cards, board>>: in order; a hole card twice; a hole card on the
\* board too; five cards of one rank; five cards of one suit, two of them
\* twice; a full board in order
EdgeHands ==
    {<<Toks(<<0, 1>>), Toks(<<2, 4, 5>>)>>,
     <<Toks(<<0, 0>>), Toks(<<4, 5, 9>>)>>,
     <<Toks(<<0, 1>>), Toks(<<0, 4, 5>>)>>,
     <<Toks(<<0, 0>>), Toks(<<1, 2, 3>>)>>,
     <<Toks(<<0, 0>>), Toks(<<4, 4, 8>>)>>,
     <<Toks(<<0, 1>>), Toks(<<2, 4, 5, 6, 8>>)>>}

\* engine.py:27-34: a call with one or three opponents and -1, 0 or 1 trials
EdgeStart ==
    /\ arg = <<>>
    /\ \E hb \in EdgeHands, n \in {1, 3}, t \in (-1)..1 : SimCall(hb[1], hb[2], n, t)
    /\ UNCHANGED <<engvars, fnvars>>

\* engine.py:18-24: a call of evaluate_best_hand: <<hand type, score>>, or what
\* the evaluator raises
EdgeEvaluate ==
    /\ arg = <<>> /\ pc = "idle"
    /\ \E hb \in EdgeHands :
          /\ arg' = [hole_cards |-> hb[1], community_cards |-> hb[2]]
          /\ ret' = IF EvaluatorAccepts(parse_cards(hb[2]), parse_cards(hb[1]))
                    THEN <<evaluate_best_hand(hb[1], hb[2])>>
                    ELSE <<<<"raised">>>>
    /\ UNCHANGED <<simvars, engvars>>

NextSimEdge == EdgeStart \/ EdgeEvaluate \/ SimStep

SpecSimEdge == Init /\ [][NextSimEdge]_vars

\* C14: whenever the same card appears twice among the hole cards and board
\* cards given to the simulator or the evaluator, the call fails with an error
\* before any trial is tallied; it never returns probabilities or a hand
\* category for a hand containing a duplicated card.
C14_DuplicateRejected ==
    /\ HasDuplicate(hole_cards \o community_cards) =>
          /\ pc /= "done" /\ result = <<>>
          /\ done_trials = 0 /\ wins + ties + losses = 0
    /\ ret /= <<>> /\ HasDuplicate(arg.hole_cards \o arg.community_cards) =>
          ret[1][1] = "raised"

\* the deck of a trial cannot serve the opponents and the board
ShortDeck ==
    /\ pc /= "idle"
    /\ Cardinality(RemoveKnown(known_cards)) < 2 * num_opponents + (5 - Len(board))

\* C15: if, after removing the known hole and board cards, the deck holds
\* fewer than 2*num_opponents + (5 - |board|) cards, estimate_win_probability
\* fails with an error and returns no probabilities; it never deals a short
\* hand or a short board and never tallies a trial in that case.
C15_ShortDeckFails ==
    ShortDeck =>
        /\ pc \notin {"eval", "done"} /\ result = <<>>
        /\ done_trials = 0 /\ wins + ties + losses = 0

\* C16: estimate_win_probability requires trials to be a positive integer:
\* for every trials <= 0 the call fails with an error and does not return a
\* (win, tie, loss) triple.
C16_TrialsPositive ==
    pc /= "idle" /\ trials <= 0 => pc /= "done" /\ result = <<>>

\* C17: a simulation with num_opponents = 0 is an error:
\* estimate_win_probability fails and returns no probabilities, and no trial
\* is ever counted as a win against an empty set of opponents.
C17_NoOpponentsFails ==
    pc /= "idle" /\ num_opponents = 0 =>
        /\ pc /= "done" /\ result = <<>>
        /\ wins = 0 /\ done_trials = 0

(***************************************************************************)
(* SpecKelly: BankrollManagement.calculate_kelly_criterion.                *)
(***************************************************************************)
\* poker_math.py:433-445: the Kelly fraction as the fraction <<n, d>> of One,
\* d > 0; b = win_amount / loss_amount is the fraction win_amount : loss_amount,
\* so (b*p - q)/b is (win_amount*p - loss_amount*q) : win_amount, and dividing
\* by b = 0 raises: the value is then the exception alone
calculate_kelly_criterion(win_probability, win_amount, loss_amount) ==
    LET p == win_probability
        q == One - p
        n == win_amount * p - loss_amount * q
    IN  IF loss_amount <= 0 THEN <<0, 1>>
        ELSE IF win_amount = 0 THEN <<"ZeroDivisionError">>
        ELSE IF win_amount > 0 THEN (IF n > 0 THEN <<n, win_amount>> ELSE <<0, 1>>)
        ELSE (IF n < 0 THEN <<0 - n, 0 - win_amount>> ELSE <<0, 1>>)

\* probabilities 0, 0.05 .. 1; amounts below, at and above zero
KellyArgs ==
    [win_probability : {Pct(5 * k) : k \in 0..20},
     win_amount : {0 - Dollars(5), 0, Dollars(5), Dollars(100)},
     loss_amount : {0 - Dollars(100), 0, Dollars(100), Dollars(200)}]

InitKelly == SimInit /\ EngInit /\ ret = <<>> /\ arg \in KellyArgs

ApplyKelly ==
    /\ ret = <<>>
    /\ ret' = <<calculate_kelly_criterion(arg.win_probability, arg.win_amount,
                                          arg.loss_amount)>>
    /\ UNCHANGED <<arg, simvars, engvars>>

SpecKelly == InitKelly /\ [][ApplyKelly]_vars

\* C18: calculate_kelly_criterion is total and non-negative: for every win
\* probability in [0,1], every win amount >= 0 and every loss amount it
\* returns a value >= 0 without raising: 0 when the loss amount is <= 0, and
\* max(0, p - q * lossAmount / winAmount) otherwise.
C18_KellyTotal ==
    ret /= <<>> /\ arg.win_amount >= 0 =>
        /\ Len(ret[1]) = 2
        /\ ret[1][1] >= 0 /\ ret[1][2] > 0
        /\ arg.loss_amount <= 0 => ret[1][1] = 0
        /\ arg.loss_amount > 0 /\ ret[1][1] > 0 =>
              /\ ret[1][2] = arg.win_amount
              /\ ret[1][1] = arg.win_probability * arg.win_amount
                               - (One - arg.win_probability) * arg.loss_amount

(***************************************************************************)
(* SpecFields: two calls of analyze_comprehensive that differ in the       *)
(* tournament fields only, the second served from the equity cache.        *)
(***************************************************************************)
\* advanced_engine.py:100-191: the AdvancedAnalysis of a call whose raw equity
\* is raw; the blinds are positive
AnalysisOf(gs, profile, roll, raw) ==
    LET hand_equity == calculate_adjusted_equity(raw, gs.position, gs.stack_size,
                                                 gs.pot_size, _profile_to_dict(profile))
        bet == gs.stack_size \div 10
        act == _determine_optimal_action(gs, hand_equity, profile)
    IN  [hand_strength |-> evaluate_best_hand(gs.hole_cards, gs.community_cards)[1],
         raw_equity |-> raw,
         adjusted_equity |-> hand_equity.adjusted_equity,
         pot_odds |-> calculate_pot_odds(gs.pot_size, bet),
         implied_odds |-> calculate_implied_odds(gs.pot_size, bet, gs.stack_size \div 2, raw),
         reverse_implied_odds |->
             calculate_reverse_implied_odds(raw, _analyze_board_texture(gs.community_cards),
                                            gs.position),
         fold_equity |-> calculate_fold_equity(profile.fold_to_cbet, gs.pot_size),
         expected_value |-> calculate_expected_value(raw, Pct(5), gs.pot_size, bet),
         optimal_action |-> act[1],
         bet_sizing |-> act[2],
         bluff_frequency |-> calculate_bluff_frequency(gs.pot_size, act[2]),
         gto_strategy |->
             calculate_gto_strategy(gs.position,
                                    <<gs.stack_size, gs.blinds[1] + gs.blinds[2]>>,
                                    gs.pot_size, _estimate_our_range(gs),
                                    _estimate_opponent_range(gs, profile)),
         bankroll_recommendation |-> _get_bankroll_recommendation(gs, raw, roll),
         risk_assessment |-> _assess_risk(gs, hand_equity, profile),
         detailed_breakdown |-> _create_detailed_breakdown(gs, hand_equity, profile)]

\* the staged call assembles this analysis
AssembledIsAnalysisOf ==
    stage = "Assembled" =>
        analysis = AnalysisOf(game_state, opponent_profile, bankroll, locals["raw_equity"])

\* advanced_engine.py:43-45: the tournament fields
TournamentFields ==
    [players_left : {2, 5, 9},
     paid_spots : {0, 3},
     prize_pool : {<<>>, <<Dollars(1000), Dollars(500)>>}]

\* the calls: a game type, a position, a stack, the cached equity, and the
\* tournament fields of the first and of the second call
FieldsArgs ==
    [game_type : GameTypes,
     position : {"button", "early"},
     stack_size : {Dollars(100), Dollars(2000)},
     raw_equity : {Pct(25), Pct(60)},
     first : TournamentFields,
     second : TournamentFields]

\* the GameState of a call: the cash game with the given game type, position,
\* stack and tournament fields
FieldsState(a, fields) ==
    GameState(EngHole, River, 1,
              [CashGame EXCEPT !.game_type = a.game_type, !.position = a.position,
                               !.stack_size = a.stack_size,
                               !.players_left = fields.players_left,
                               !.paid_spots = fields.paid_spots,
                               !.prize_pool = fields.prize_pool])

InitFields == SimInit /\ EngInit /\ ret = <<>> /\ arg \in FieldsArgs

\* the two results
ApplyFields ==
    /\ ret = <<>>
    /\ ret' = <<AnalysisOf(FieldsState(arg, arg.first), CashGame.profile, CashGame.bankroll,
                           arg.raw_equity),
                AnalysisOf(FieldsState(arg, arg.second), CashGame.profile, CashGame.bankroll,
                           arg.raw_equity)>>
    /\ UNCHANGED <<arg, simvars, engvars>>

SpecFields == InitFields /\ [][ApplyFields]_vars

\* C19: the tournament fields are used only when the game type is
\* tournament: two analyze_comprehensive calls whose game type is cash or
\* sit-and-go and that differ only in players_left, paid_spots or prize_pool
\* (same cached equity) have results identical in every field.
C19_TournamentFieldsUnused ==
    ret /= <<>> /\ arg.game_type \in {"cash", "sit_and_go"} => ret[1] = ret[2]

\* two sit-and-go calls, one of which would be on the bubble
C19_Witness ==
    /\ ret /= <<>> /\ arg.game_type = "sit_and_go"
    /\ arg.first.players_left = 5 /\ arg.first.paid_spots = 3
    /\ arg.second.players_left = 9 /\ arg.second.paid_spots = 0
    /\ arg.first.prize_pool /= arg.second.prize_pool
    /\ ret[1] = ret[2]

\* two tournament calls whose results differ
C19_WitnessTournament ==
    /\ ret /= <<>> /\ arg.game_type = "tournament"
    /\ ret[1].risk_assessment /= ret[2].risk_assessment

(***************************************************************************)
(* Claims about the strategy vector when the weights do not sum above 0.   *)
(***************************************************************************)
\* the sum of the weights before normalization, for the arguments of SpecGto
RawTotal ==
    LET w == GtoWeights(arg.position, <<arg.stack_size, arg.blinds[1] + arg.blinds[2]>>)
    IN  w.fold + w.call + w.raise

\* C20: in calculate_gto_strategy, whenever the three pre-normalization
\* weights sum to a value <= 0, the returned vector has fold = call = raise
\* = 0; no returned component is left at a non-zero unnormalized weight.
C20_DegenerateIsZero ==
    ret /= <<>> /\ RawTotal <= 0 =>
        ret[1].fold = 0 /\ ret[1].call = 0 /\ ret[1].raise = 0

\* a number of units is a probability
IsProbability(x) == 0 <= x /\ x <= One

\* C21: every component of the strategy vector returned by
\* calculate_gto_strategy is a probability: for every position and stack
\* depth, fold, call and raise each lie in [0,1].
C21_StrategyInUnit ==
    ret /= <<>> =>
        IsProbability(ret[1].fold) /\ IsProbability(ret[1].call) /\ IsProbability(ret[1].raise)

(***************************************************************************)
(* SpecConc: concurrent requests on the one engine of app.py:10-11.  Each  *)
(* thread is in one call of _calculate_raw_equity, advanced_engine.py:     *)
(* 193-210; the equity cache is the engine's, the rest of a call is the    *)
(* thread's own.  arg[t] is the frame of thread t and ret[t] what its call *)
(* returned; sim_log holds <<key, thread>> for every simulation run.       *)
(***************************************************************************)
\* one thread for each request
Threads == 1..MaxCalls

\* the values estimate_win_probability can return as win + tie/2 for the key k
\* (a full board and one opponent): every trial ends as one of the outcomes
\* the deck allows
SimEquities(k) ==
    LET h == parse_cards(k[1])
        b == parse_cards(k[2])
        d == RemoveKnown(SeqToSet(k[1] \o k[2]))
        outcomes == {Outcome(Evaluate(b, h), Evaluate(b, <<c1, c2>>)) :
                        <<c1, c2>> \in {x \in d \X d : x[1] /= x[2]}}
    IN  {EquityOf(Quotients(w, t, EngTrials - w - t, EngTrials)) :
            <<w, t>> \in {x \in (0..EngTrials) \X (0..EngTrials) :
                            /\ x[1] + x[2] <= EngTrials
                            /\ x[1] > 0 => "win" \in outcomes
                            /\ x[2] > 0 => "tie" \in outcomes
                            /\ x[1] + x[2] < EngTrials => "loss" \in outcomes}}

\* what no thread touches in _calculate_raw_equity
conc_unused == <<simvars, calls, stage, game_state, opponent_profile, bankroll,
                 locals, analysis>>

InitConc ==
    /\ SimInit /\ EngInit
    /\ arg = [t \in Threads |-> [pc |-> "idle", cache_key |-> <<>>, equity |-> 0]]
    /\ ret = [t \in Threads |-> <<>>]

\* advanced_engine.py:193-197: a thread is called, with the hole cards in one of
\* their two orders
ConcCall ==
    \E t \in Threads :
        /\ arg[t].pc = "idle"
        /\ \E h \in {EngHole, EngHoleSwapped} :
              arg' = [arg EXCEPT ![t] = [pc |-> "check",
                                         cache_key |-> CacheKey(h, River, 1),
                                         equity |-> 0]]
        /\ UNCHANGED <<ret, equity_cache, sim_log, conc_unused>>

\* advanced_engine.py:199-200: the key is looked up; a hit returns
ConcCheck ==
    \E t \in Threads :
        /\ arg[t].pc = "check"
        /\ IF arg[t].cache_key \in DOMAIN equity_cache
           THEN /\ ret' = [ret EXCEPT ![t] = <<equity_cache[arg[t].cache_key]>>]
                /\ arg' = [arg EXCEPT ![t].pc = "returned"]
           ELSE /\ arg' = [arg EXCEPT ![t].pc = "simulate"]
                /\ UNCHANGED ret
        /\ UNCHANGED <<equity_cache, sim_log, conc_unused>>

\* advanced_engine.py:202-208: the simulation of a thread and its equity
ConcSimulate ==
    \E t \in Threads :
        /\ arg[t].pc = "simulate"
        /\ \E e \in SimEquities(arg[t].cache_key) :
              arg' = [arg EXCEPT ![t].pc = "store", ![t].equity = e]
        /\ sim_log' = sim_log \cup {<<arg[t].cache_key, t>>}
        /\ UNCHANGED <<ret, equity_cache, conc_unused>>

\* advanced_engine.py:209-210: the equity is stored and returned
ConcStore ==
    \E t \in Threads :
        /\ arg[t].pc = "store"
        /\ equity_cache' = (arg[t].cache_key :> arg[t].equity) @@ equity_cache
        /\ ret' = [ret EXCEPT ![t] = <<arg[t].equity>>]
        /\ arg' = [arg EXCEPT ![t].pc = "returned"]
        /\ UNCHANGED <<sim_log, conc_unused>>

NextConc == ConcCall \/ ConcCheck \/ ConcSimulate \/ ConcStore

SpecConc == InitConc /\ [][NextConc]_vars

\* C22: under any interleaving of concurrent requests that share one engine,
\* all _calculate_raw_equity calls for the same key return the same equity
\* and the simulation for that key is run at most once.
C22_OneEquityPerKey ==
    /\ \A t, u \in Threads :
          ret[t] /= <<>> /\ ret[u] /= <<>> /\ arg[t].cache_key = arg[u].cache_key
              => ret[t] = ret[u]
    /\ \A t, u \in Threads :
          <<arg[t].cache_key, t>> \in sim_log /\ <<arg[t].cache_key, u>> \in sim_log
              => t = u

(***************************************************************************)
(* Claims about the equity cache in sequential use.                        *)
(***************************************************************************)
\* one step: every entry of the cache is kept as it is
EntriesKept ==
    \A k \in DOMAIN equity_cache :
        k \in DOMAIN equity_cache' /\ equity_cache'[k] = equity_cache[k]

\* one step of a call whose key is stored: the stored value is returned, with
\* no simulation and no change of the cache
HitReturnsStored ==
    stage = "evaluated" /\ CurrentKey \in DOMAIN equity_cache =>
        /\ stage' = "RawEquityComputed"
        /\ locals'["raw_equity"] = equity_cache[CurrentKey]
        /\ equity_cache' = equity_cache
        /\ sim_log' = sim_log
        /\ pc' = "idle"

TextureRanks == <<2, 3, 5, 8, 11, 14>>
TextureCards == Len(TextureRanks) * 3

\* the tokens of a board
BoardTokens(b) ==
    [k \in 1..Len(b) |-> <<TextureRanks[((b[k] - 1) \div 3) + 1], (b[k] - 1) % 3>>]

\* the board after b: the next of its length, then the first of the next length
\* (0, 3, 4, 5 cards); the last board is followed by itself
NextBoard(b) ==
    LET n == Len(b)
        movable == {i \in 1..n : b[i] < TextureCards - (n - i)}
    IN  IF movable /= {}
        THEN LET i == Max(movable)
             IN  [k \in 1..n |-> IF k < i THEN b[k] ELSE b[i] + 1 + (k - i)]
        ELSE IF n = 0 THEN <<1, 2, 3>>
        ELSE IF n < 5 THEN [k \in 1..(n + 1) |-> k]
        ELSE b

InitTexture ==
    /\ SimInit /\ EngInit
    /\ arg = [board |-> <<>>, swept |-> FALSE]
    /\ ret = {}

\* advanced_engine.py:222-258 on the next board
SweepTexture ==
    /\ ~arg.swept
    /\ ret' = ret \cup {_analyze_board_texture(BoardTokens(arg.board))}
    /\ arg' = [board |-> NextBoard(arg.board), swept |-> NextBoard(arg.board) = arg.board]
    /\ UNCHANGED <<simvars, engvars>>

SpecTexture == InitTexture /\ [][SweepTexture]_vars

\* C24: each of the four board textures preflop, dry, wet and coordinated is
\* produced by _analyze_board_texture for at least one board of 0, 3, 4 or 5
\* valid distinct cards.
C24_AllTexturesProduced ==
    arg.swept => ret = {"preflop", "dry", "wet", "coordinated"}

(***************************************************************************)
(* Claims about the numbers of an assembled analysis.                      *)
(***************************************************************************)
\* C25: within one analysis, the stack-to-pot ratio reported in the
\* breakdown (stack_analysis.spr) equals the stack-to-pot ratio the equity
\* adjuster used to compute the SPR adjustment, for every stack >= 0 and pot
\* >= 0 including pot = 0.
C25_OneSpr ==
    stage = "Assembled" =>
        LET reported == analysis.detailed_breakdown.stack_analysis.spr
            used == AdjusterSpr(game_state.stack_size, game_state.pot_size)
        IN  reported[1] * used[2] = used[1] * reported[2]

\* C26: in the expected value of an analysis the win, tie and loss weights are a
\* probability distribution: the loss weight 1 - win - tie, with the tie
\* weight 0.05 of advanced_engine.py:139, is >= 0, so the loss term never raises
\* the expected value above the sum of the win term and the tie term
C26_LossWeightNonNegative ==
    stage = "Assembled" =>
        LET win_prob == analysis.raw_equity
            tie_prob == Pct(5)
            pot_size == game_state.pot_size
        IN  /\ One - win_prob - tie_prob >= 0
            /\ analysis.expected_value <= win_prob * pot_size + tie_prob * (pot_size \div 2)

\* C27: the bluff frequency of an analysis is a frequency in [0, 1]: it is 0 when
\* the action is fold or call, and when the action is raise it does not exceed 1
C27_BluffFrequencyInUnit ==
    stage = "Assembled" =>
        LET frequency == analysis.bluff_frequency
        IN  /\ frequency[2] > 0
            /\ 0 <= frequency[1]
            /\ frequency[1] <= frequency[2]
            /\ analysis.optimal_action \in {"fold", "call"} => frequency[1] = 0
====
